---- MODULE Spec2Model ----
(***************************************************************************)
(* Model of the two cores of wrike-api-101:                                *)
(*   - the hierarchy build of wrike/wrike/folder_project.py                *)
(*     (add_parent_kv, add_child_kv, add_level / assign_level), run in     *)
(*     the order get_folder_or_project_metadata runs them;                 *)
(*   - the paginated audit-log loop of wrike/wrike/audit_log.py            *)
(*     (get_complete_audit_log over get_audit_log_subset and wrike_get).   *)
(* Around them: folder_level_map on the built records (SpecLevelMap), the  *)
(* lookups get_folder_or_project_id / _name (SpecSelect), two calls of     *)
(* get_complete_audit_log against one page source (SpecTwoRuns), and       *)
(* reframe_audit_log on a frame of its own (SpecReframe).                  *)
(* Python dicts are sequences of <<key, value>> pairs in insertion order.  *)
(* A record (a Python dict with optional keys) carries the set of keys it  *)
(* holds; a field whose key is absent holds a fixed filler value.          *)
(***************************************************************************)
EXTENDS Integers, Sequences, FiniteSets, TLC

VARIABLES
    f_meta,               \* the flat record list wrike_get returned (input)
    folder_data,          \* the record list the build mutates in place
    hpc,                  \* position in get_folder_or_project_metadata
    level_map,            \* what folder_level_map made of the built records
    selectors,            \* the call of get_folder_or_project_id / _name
    remote_fetches,       \* fetches that call issued so far
    found,                \* how that call ended
    args,                 \* arguments of get_complete_audit_log
    complete_audit_log,   \* accumulator of get_complete_audit_log
    next_page_token,      \* loop variable of get_complete_audit_log
    i,                    \* loop counter of get_complete_audit_log
    fetched,              \* log of the page fetches issued so far
    apc,                  \* position in get_complete_audit_log
    outcome,              \* how get_complete_audit_log ended
    source,               \* a page source whose answer the request determines
    first_run,            \* how the first of two runs against source ended
    request,              \* arguments of a call of get_audit_log_subset
    params,               \* the query parameters that call hands to wrike_get
    ppc,                  \* position in that call
    json_in,              \* the nested JSON object handed to flatten_json
    flat,                 \* the flat dict flatten_json returned
    json_out,             \* what unflatten_json made of flat
    jpc,                  \* position in unflatten_json(flatten_json(x))
    data_export_dict,     \* table names and URLs handed to data_export_to_sql
    answer,               \* what the service answers to the GET of a table's URL
    tbl_name,             \* the table the retry loop is pushing
    fail,                 \* loop flag of the retry loop
    conn,                 \* the connection the name conn is bound to
    leaked,               \* connections opened, not closed, and no longer named
    caught,               \* the connection error the loop caught last
    pushed,               \* the tables df.to_sql() has written, in order
    epc,                  \* position in data_export_to_sql
    export_exc            \* the exception that ended data_export_to_sql

vars == <<f_meta, folder_data, hpc, level_map, selectors, remote_fetches, found,
          args, complete_audit_log, next_page_token, i, fetched, apc, outcome,
          source, first_run, request, params, ppc, json_in, flat, json_out, jpc,
          data_export_dict, answer, tbl_name, fail, conn, leaked, caught, pushed, epc,
          export_exc>>

pvars == <<request, params, ppc>>
jvars == <<json_in, flat, json_out, jpc>>
evars == <<data_export_dict, answer, tbl_name, fail, conn, leaked, caught, pushed, epc,
           export_exc>>
tvars == <<pvars, jvars, evars>>
svars == <<selectors, remote_fetches, found>>
bvars == <<f_meta, folder_data, hpc, level_map, svars>>
hvars == <<bvars, tvars>>
rvars == <<source, first_run>>
lvars == <<args, complete_audit_log, next_page_token, i, fetched, apc, outcome, rvars>>
avars == <<lvars, tvars>>

----------------------------------------------------------------------------
(* Bounds of the model *)

MaxRecords == 3
MaxEdges == 3
RecursionLimit == 6
MaxFetches == 3
MaxPageLen == 1
MaxIter == 2
MaxRows == 3

----------------------------------------------------------------------------
(* Python values *)

\* Python truthiness of a string: the empty string is falsy.
Truthy(s) == s # ""

\* dict: key lookup, d.get(k, default), d[k] = v, d.keys()
DictHas(d, k) == \E n \in 1..Len(d) : d[n][1] = k

DictGet(d, k, default) ==
    IF DictHas(d, k) THEN d[CHOOSE n \in 1..Len(d) : d[n][1] = k][2] ELSE default

DictSet(d, k, v) ==
    IF DictHas(d, k)
    THEN [n \in 1..Len(d) |-> IF d[n][1] = k THEN <<k, v>> ELSE d[n]]
    ELSE Append(d, <<k, v>>)

DictKeys(d) == [n \in 1..Len(d) |-> d[n][1]]

SeqToSet(s) == {s[n] : n \in 1..Len(s)}

RECURSIVE SeqsUpTo(_, _)
SeqsUpTo(S, n) ==
    IF n = 0 THEN {<<>>}
    ELSE SeqsUpTo(S, n - 1) \cup {Append(s, x) : s \in {t \in SeqsUpTo(S, n - 1) : Len(t) = n - 1}, x \in S}

----------------------------------------------------------------------------
(* Hierarchy build: folder_project.py *)

\* item.get('childIds', [])
ChildIdsOf(item) == IF "childIds" \in item.keys THEN item.childIds ELSE <<>>

\* folder.get('parent'): None (falsy) when the key is missing
ParentOf(item) == IF "parent" \in item.keys THEN item.parent ELSE <<>>

\* folder_dict.get('child', {})
ChildOf(item) == IF "child" \in item.keys THEN item.child ELSE <<>>

\* {item['id']: item['title'] for item in folder_data}: a later duplicate id
\* overwrites the value of an earlier one
RECURSIVE id_to_title_upto(_, _)
id_to_title_upto(fd, n) ==
    IF n = 0 THEN <<>>
    ELSE DictSet(id_to_title_upto(fd, n - 1), fd[n].id, fd[n].title)

id_to_title(fd) == id_to_title_upto(fd, Len(fd))

\* the value process_item stores under 'parent'
ParentMappingEmpty(parent_id, titles) == <<>>

ParentMapping(parent_id, titles) ==
    IF Truthy(parent_id) THEN <<<<parent_id, DictGet(titles, parent_id, "")>>>> ELSE <<>>

\* process_item(item, parent_id) of add_parent_kv
process_item(item, parent_id, titles) ==
    [item EXCEPT !.parent = ParentMapping(parent_id, titles),
                 !.keys = @ \cup {"parent"}]

\* next((child for child in folder_data if child['id'] == child_id), None):
\* index of the first record with that id, 0 for None
FirstWithIdOrFirst(fd, child_id) ==
    IF \E n \in 1..Len(fd) : fd[n].id = child_id
    THEN CHOOSE n \in 1..Len(fd) :
            fd[n].id = child_id /\ \A m \in 1..(n - 1) : fd[m].id # child_id
    ELSE 1

FirstWithId(fd, child_id) ==
    IF \E n \in 1..Len(fd) : fd[n].id = child_id
    THEN CHOOSE n \in 1..Len(fd) :
            fd[n].id = child_id /\ \A m \in 1..(n - 1) : fd[m].id # child_id
    ELSE 0

\* the inner loop of add_parent_kv over item['childIds'], from position k
RECURSIVE ParentInner(_, _, _, _)
ParentInner(fd, n, k, titles) ==
    IF k > Len(ChildIdsOf(fd[n])) THEN fd
    ELSE LET child_id == ChildIdsOf(fd[n])[k]
             c == FirstWithId(fd, child_id)
             fd1 == IF c # 0
                    THEN [fd EXCEPT ![c] = process_item(fd[c], fd[n].id, titles)]
                    ELSE fd
         IN ParentInner(fd1, n, k + 1, titles)

\* the outer loop of add_parent_kv over folder_data, from record n
RECURSIVE ParentOuter(_, _, _)
ParentOuter(fd, n, titles) ==
    IF n > Len(fd) THEN fd
    ELSE ParentOuter(ParentInner(fd, n, 1, titles), n + 1, titles)

add_parent_kv(fd) == ParentOuter(fd, 1, id_to_title(fd))

\* {child_id: id_to_title.get(child_id, '') for child_id in item.get('childIds', [])}
RECURSIVE ChildMappingUntitled(_, _, _)
ChildMappingUntitled(ids, k, titles) ==
    IF k = 0 THEN <<>>
    ELSE DictSet(ChildMappingUntitled(ids, k - 1, titles), ids[k], "")

RECURSIVE ChildMapping(_, _, _)
ChildMapping(ids, k, titles) ==
    IF k = 0 THEN <<>>
    ELSE DictSet(ChildMapping(ids, k - 1, titles), ids[k], DictGet(titles, ids[k], ""))

add_child_kv(fd) ==
    LET titles == id_to_title(fd)
    IN [n \in 1..Len(fd) |->
            [fd[n] EXCEPT !.child = ChildMapping(ChildIdsOf(fd[n]), Len(ChildIdsOf(fd[n])), titles),
                          !.childIds = <<>>,
                          !.keys = (@ \cup {"child"}) \ {"childIds"}]]

\* id_to_folder = {folder['id']: folder for folder in folder_data}: the index
\* of the last record with that id, 0 when child_id is not in id_to_folder
id_to_folder_empty(fd, child_id) == 0

id_to_folder(fd, child_id) ==
    IF \E n \in 1..Len(fd) : fd[n].id = child_id
    THEN CHOOSE n \in 1..Len(fd) :
            fd[n].id = child_id /\ \A m \in (n + 1)..Len(fd) : fd[m].id # child_id
    ELSE 0

\* the level assign_level passes to a child
ChildLevelSame(level) == level

ChildLevel(level) == level + 1

\* assign_level(folder_dict, level, id_to_folder): depth is the number of
\* nested assign_level frames; beyond RecursionLimit the interpreter raises
\* RecursionError, which nothing catches.
RECURSIVE assign_level(_, _, _, _)
RECURSIVE AssignChildren(_, _, _, _, _)
assign_level(fd, n, level, depth) ==
    IF depth > RecursionLimit THEN [fd |-> fd, raised |-> TRUE]
    ELSE AssignChildren([fd EXCEPT ![n].level = level, ![n].keys = @ \cup {"level"}],
                        n, 1, level, depth)

AssignChildren(fd, n, k, level, depth) ==
    IF k > Len(ChildOf(fd[n])) THEN [fd |-> fd, raised |-> FALSE]
    ELSE LET c == id_to_folder(fd, DictKeys(ChildOf(fd[n]))[k])
         IN IF c = 0 THEN AssignChildren(fd, n, k + 1, level, depth)
            ELSE LET r == assign_level(fd, c, ChildLevel(level), depth + 1)
                 IN IF r.raised THEN r
                    ELSE AssignChildren(r.fd, n, k + 1, level, depth)

\* the root test of add_level: not folder.get('parent')
IsRootAlways(folder) == TRUE

IsRootNever(folder) == FALSE

IsRoot(folder) == ParentOf(folder) = <<>>

\* the loop of add_level over folder_data, from record n
RECURSIVE LevelLoop(_, _)
LevelLoop(fd, n) ==
    IF n > Len(fd) THEN [fd |-> fd, raised |-> FALSE]
    ELSE IF IsRoot(fd[n])
         THEN LET r == assign_level(fd, n, 0, 1)
              IN IF r.raised THEN r ELSE LevelLoop(r.fd, n + 1)
         ELSE LevelLoop(fd, n + 1)

add_level(fd) == LevelLoop(fd, 1)

----------------------------------------------------------------------------
(* Input record sets *)

IdNames == <<"A", "B", "C", "D", "E", "F", "G", "H">>
TitleNames == <<"Ta", "Tb", "Tc", "Td", "Te", "Tf", "Tg", "Th">>

\* every id a child list may hold: the ids records can have, "" included
IdUniverse == {""} \cup {IdNames[n] : n \in 1..MaxRecords}

\* child lists for n records, holding at most budget ids in total
RECURSIVE ChildListings(_, _)
ChildListings(n, budget) ==
    IF n = 0 THEN {<<>>}
    ELSE UNION {{<<c>> \o rest : c \in {t \in SeqsUpTo(IdUniverse, k) : Len(t) = k},
                                 rest \in ChildListings(n - 1, budget - k)} :
                    k \in 0..budget}

\* the child lists of every record count, computed once
Listings == [n \in 0..MaxRecords |-> ChildListings(n, MaxEdges)]

\* Record n has the id IdNames[n], but for record e, whose id is the empty
\* string (e = 0: none). Titles are all empty or pairwise distinct.
MakeRecords(cl, e, named) ==
    [n \in 1..Len(cl) |->
        [id |-> IF n = e THEN "" ELSE IdNames[n],
         title |-> IF named THEN TitleNames[n] ELSE "",
         keys |-> {"childIds"},
         childIds |-> cl[n],
         parent |-> <<>>,
         child |-> <<>>,
         level |-> 0]]

NoLevelMap == [kind |-> "none", map |-> <<>>, exc |-> ""]
NoSelectors == [fn |-> "none", folder |-> "None", project |-> "None"]
NoFound == [kind |-> "none", value |-> "None", exc |-> ""]

SelectIdle ==
    /\ selectors = NoSelectors
    /\ remote_fetches = 0
    /\ found = NoFound

NoArgs == [none |-> TRUE, max_iterations |-> 0, reframe |-> FALSE, verbose |-> FALSE]
NoOutcome == [kind |-> "none", value |-> <<>>, exc |-> ""]

\* no call of get_audit_log_subset on its own
None == [none |-> TRUE, value |-> <<>>]
Given(v) == [none |-> FALSE, value |-> v]

NoRequest == [next_page_token |-> "None", event_date |-> None, operations |-> None,
              page_size |-> 0]

ParamsIdle ==
    /\ request = NoRequest
    /\ params = <<>>
    /\ ppc = "idle"

\* JSON values: a dict holds <<key, value>> pairs, a list holds values, a
\* scalar holds a string; keys are strings, held character by character
JsonDict(items) == [t |-> "dict", s |-> "", items |-> items]
JsonList(items) == [t |-> "list", s |-> "", items |-> items]
JsonScalar(s) == [t |-> "scalar", s |-> s, items |-> <<>>]
JsonNone == [t |-> "None", s |-> "", items |-> <<>>]

JsonIdle ==
    /\ json_in = JsonNone
    /\ flat = <<>>
    /\ json_out = JsonNone
    /\ jpc = "idle"

ExportIdle ==
    /\ data_export_dict = <<>>
    /\ answer = "None"
    /\ tbl_name = "None"
    /\ fail = FALSE
    /\ conn = "unbound"
    /\ leaked = 0
    /\ caught = "None"
    /\ pushed = <<>>
    /\ epc = "idle"
    /\ export_exc = "None"

ToolsIdle == ParamsIdle /\ JsonIdle /\ ExportIdle

AuditLoopIdle ==
    /\ args = NoArgs
    /\ complete_audit_log = <<>>
    /\ next_page_token = "None"
    /\ i = 0
    /\ fetched = <<>>
    /\ apc = "idle"
    /\ outcome = NoOutcome
    /\ source = <<>>
    /\ first_run = NoOutcome

AuditIdle == AuditLoopIdle /\ ToolsIdle

\* the state after wrike_get returned the flat record list
InitBuild ==
    /\ \E n \in 0..MaxRecords :
         \E e \in 0..n, named \in BOOLEAN :
           \E cl \in Listings[n] :
              /\ f_meta = MakeRecords(cl, e, named)
              /\ folder_data = f_meta
    /\ hpc = "add_parent_kv"
    /\ level_map = NoLevelMap
    /\ SelectIdle
    /\ AuditIdle

\* get_folder_or_project_metadata: f_meta_parent_data_added = add_parent_kv(f_meta)
AddParentKv ==
    /\ hpc = "add_parent_kv"
    /\ folder_data' = add_parent_kv(folder_data)
    /\ hpc' = "add_child_kv"
    /\ UNCHANGED <<f_meta, level_map, svars, avars>>

\* f_meta_child_data_added = add_child_kv(f_meta_parent_data_added)
AddChildKv ==
    /\ hpc = "add_child_kv"
    /\ folder_data' = add_child_kv(folder_data)
    /\ hpc' = "add_level"
    /\ UNCHANGED <<f_meta, level_map, svars, avars>>

\* f_meta_level_data_added = add_level(f_meta_child_data_added); a
\* RecursionError leaves get_folder_or_project_metadata by raising
AddLevel ==
    /\ hpc = "add_level"
    /\ LET r == add_level(folder_data)
       IN /\ folder_data' = r.fd
          /\ hpc' = IF r.raised THEN "RecursionError" ELSE "done"
    /\ UNCHANGED <<f_meta, level_map, svars, avars>>

NextBuild == AddParentKv \/ AddChildKv \/ AddLevel

Spec == InitBuild /\ [][NextBuild]_vars

----------------------------------------------------------------------------
(* The build followed by folder_level_map, as get_all_tasks of task.py runs
   them, on record sets in which the records without children hold no
   'childIds' key *)

\* {folder['id']: folder['level'] for folder in folder_metadata}, up to record n
RECURSIVE level_map_upto(_, _)
level_map_upto(fd, n) ==
    IF n = 0 THEN <<>>
    ELSE DictSet(level_map_upto(fd, n - 1), fd[n].id, fd[n].level)

\* folder_level_map(folder_metadata): folder['level'] raises KeyError on a
\* record that holds no 'level' key
folder_level_map(fd) ==
    IF \E n \in 1..Len(fd) : "level" \notin fd[n].keys
    THEN [kind |-> "raise", map |-> <<>>, exc |-> "KeyError"]
    ELSE [kind |-> "return", map |-> level_map_upto(fd, Len(fd)), exc |-> ""]

\* the records of this specification: one fewer than MaxRecords, so that the
\* last id of IdUniverse is the id of no record
SmallRecords == MaxRecords - 1

SmallListings == [n \in 0..SmallRecords |-> Listings[n]]

\* the service leaves 'childIds' out of the records that have no children
OmitChildIds(fd) ==
    [n \in 1..Len(fd) |->
        IF fd[n].childIds = <<>> THEN [fd[n] EXCEPT !.keys = @ \ {"childIds"}]
        ELSE fd[n]]

InitLevelMap ==
    /\ \E n \in 0..SmallRecords :
         \E e \in 0..n, named \in BOOLEAN :
           \E cl \in SmallListings[n] :
              /\ f_meta = OmitChildIds(MakeRecords(cl, e, named))
              /\ folder_data = f_meta
    /\ hpc = "add_parent_kv"
    /\ level_map = NoLevelMap
    /\ SelectIdle
    /\ AuditIdle

\* get_all_tasks: folder_level_mapping = folder_level_map(folder_metadata)
FolderLevelMap ==
    /\ hpc = "done"
    /\ level_map' = folder_level_map(folder_data)
    /\ hpc' = IF folder_level_map(folder_data).kind = "raise" THEN "KeyError" ELSE "mapped"
    /\ UNCHANGED <<f_meta, folder_data, svars, avars>>

NextLevelMap == AddParentKv \/ AddChildKv \/ AddLevel \/ FolderLevelMap

SpecLevelMap == InitLevelMap /\ [][NextLevelMap]_vars

----------------------------------------------------------------------------
(* get_folder_or_project_id and get_folder_or_project_name: the lookups by
   title and by id over get_folder_or_project_metadata *)

SelectFunctions == {"get_folder_or_project_id", "get_folder_or_project_name"}

\* what a caller passes for the folder and for the project: None, the empty
\* string, the title (the id) of the first record, or that of no record
SelectorValues(fn) ==
    IF fn = "get_folder_or_project_id" THEN {"None", "", TitleNames[1], "Tz"}
    ELSE {"None", "", IdNames[1], "Z"}

Calls ==
    UNION {[fn : {fn}, folder : SelectorValues(fn), project : SelectorValues(fn)] :
              fn \in SelectFunctions}

\* folder_title is None, project_title is None, folder_id is None, ...
NoSelectorNever(x) == FALSE

NoSelector(x) == x = "None"

\* if folder_title is None and project_title is None
SelectorsMissing(sel) == NoSelector(sel.folder) /\ NoSelector(sel.project)

\* title = folder_title if it is not None, else project_title (likewise the id)
Wanted(sel) == IF ~NoSelector(sel.folder) THEN sel.folder ELSE sel.project

\* next((item['id'] for item in ... if item['title'] == title), None), and
\* next((item['title'] for item in ... if item['id'] == folder_or_project_id), None)
Lookup(fd, sel) ==
    IF sel.fn = "get_folder_or_project_id"
    THEN IF \E n \in 1..Len(fd) : fd[n].title = Wanted(sel)
         THEN fd[CHOOSE n \in 1..Len(fd) :
                    fd[n].title = Wanted(sel)
                    /\ \A m \in 1..(n - 1) : fd[m].title # Wanted(sel)].id
         ELSE "None"
    ELSE IF FirstWithId(fd, Wanted(sel)) # 0 THEN fd[FirstWithId(fd, Wanted(sel))].title
         ELSE "None"

\* get_folder_or_project_metadata: the three steps of the build on what
\* wrike_get returned
get_folder_or_project_metadata(recs) == add_level(add_child_kv(add_parent_kv(recs)))

\* the record sets the service holds: at most one child reference
RemoteListings == [n \in 0..MaxRecords |-> ChildListings(n, 1)]

\* the call was made; f_meta is what the service would answer
InitSelect ==
    /\ selectors \in Calls
    /\ remote_fetches = 0
    /\ found = NoFound
    /\ \E n \in 0..MaxRecords :
         \E e \in 0..n, named \in BOOLEAN :
           \E cl \in RemoteListings[n] : f_meta = MakeRecords(cl, e, named)
    /\ folder_data = <<>>
    /\ hpc = "select"
    /\ level_map = NoLevelMap
    /\ AuditIdle

\* raise ValueError(...)
SelectRaise ==
    /\ hpc = "select"
    /\ SelectorsMissing(selectors)
    /\ found' = [kind |-> "raise", value |-> "None", exc |-> "ValueError"]
    /\ hpc' = "ValueError"
    /\ UNCHANGED <<f_meta, folder_data, level_map, selectors, remote_fetches, avars>>

\* folder_or_project_dict = get_folder_or_project_metadata(...): one fetch,
\* then the build, whose RecursionError nothing catches
SelectFetch ==
    /\ hpc = "select"
    /\ ~SelectorsMissing(selectors)
    /\ remote_fetches' = remote_fetches + 1
    /\ LET r == get_folder_or_project_metadata(f_meta)
       IN /\ folder_data' = r.fd
          /\ hpc' = IF r.raised THEN "RecursionError" ELSE "lookup"
          /\ found' = IF r.raised
                      THEN [kind |-> "raise", value |-> "None", exc |-> "RecursionError"]
                      ELSE found
    /\ UNCHANGED <<f_meta, level_map, selectors, avars>>

\* the lookup in the built records, and the return
SelectLookup ==
    /\ hpc = "lookup"
    /\ found' = [kind |-> "return", value |-> Lookup(folder_data, selectors), exc |-> ""]
    /\ hpc' = "returned"
    /\ UNCHANGED <<f_meta, folder_data, level_map, selectors, remote_fetches, avars>>

NextSelect == SelectRaise \/ SelectFetch \/ SelectLookup

SpecSelect == InitSelect /\ [][NextSelect]_vars

----------------------------------------------------------------------------
(* Paginated audit log: audit_log.py over api.py *)

HTTP_OK == 200
HTTP_BAD_REQUEST == 400
HTTP_UNAUTHORIZED == 401

\* Audit entries: one whose 'details' is a mapping, one whose 'details' is not
EntryWithDetails ==
    [id |-> "e1", isdict |-> TRUE, details |-> <<<<"k1", "v1">>, <<"k2", "v2">>>>]
EntryWithoutDetails == [id |-> "e2", isdict |-> FALSE, details |-> <<>>]
Entries == {EntryWithDetails, EntryWithoutDetails}

\* "None" stands for Python's None (no 'nextPageToken' key in the answer)
Tokens == {"None", "", "t1", "t2"}

\* the truth value Python gives a token: None and '' are falsy
TokenTruthy(tok) == tok \notin {"None", ""}

\* the statuses the service answers with: 200, one more status below 400
\* (204), and error statuses
Statuses == {200, 204, 400, 401, 500}

\* every answer of the service to one page request
Responses ==
    [status : {200}, data : SeqsUpTo(Entries, MaxPageLen), nextPageToken : Tokens]
    \cup [status : Statuses \ {200}, data : {<<>>}, nextPageToken : {"None"}]

\* wrike_get(url, return_response=True, ...): raise_for_status raises
\* HTTPError for every status from 400 up, which wrike_get turns into None
wrike_get(resp) ==
    IF resp.status >= HTTP_BAD_REQUEST
    THEN [none |-> TRUE, status |-> 0, data |-> <<>>, nextPageToken |-> "None"]
    ELSE [none |-> FALSE, status |-> resp.status, data |-> resp.data,
          nextPageToken |-> resp.nextPageToken]

\* next_token = response.json().get('nextPageToken', None)
NextTokenInvented(response) ==
    IF TokenTruthy(response.nextPageToken) THEN "t1" ELSE response.nextPageToken

NextTokenOf(response) == response.nextPageToken

\* params of the request: 'nextPageToken' is sent only when the token is
\* truthy ("None": the request carries no token)
SentToken(tok) == IF TokenTruthy(tok) THEN tok ELSE "None"

NonePair == [kind |-> "none", exc |-> "", df |-> <<>>, next_token |-> "None"]

\* get_audit_log_subset: response.status_code on None raises AttributeError
get_audit_log_subset(resp) ==
    LET response == wrike_get(resp)
    IN IF response.none
       THEN [kind |-> "raise", exc |-> "AttributeError", df |-> <<>>, next_token |-> "None"]
       ELSE IF response.status = HTTP_UNAUTHORIZED THEN NonePair
       ELSE IF response.status = HTTP_BAD_REQUEST THEN NonePair
       ELSE IF response.status # HTTP_OK THEN NonePair
       ELSE [kind |-> "df", exc |-> "", df |-> response.data,
             next_token |-> NextTokenOf(response)]

\* pd.concat(objs=[complete_audit_log, subset], ignore_index=True)
concat_prepend(log, subset) == subset \o log

concat_distinct(log, subset) ==
    log \o SelectSeq(subset, LAMBDA x : x \notin SeqToSet(log))

concat(log, subset) == log \o subset

\* what the loop does when subset is None
ErrorControlRetry == "continue"

ErrorControl == "break"

\* the test that ends the loop on the last page: not next_page_token
LastPage(tok) == ~TokenTruthy(tok)

\* if max_iterations is not None and i >= max_iterations
CapReachedNever(a, n) == FALSE

CapReached(a, n) == ~a.none /\ n >= a.max_iterations

\* one pass of the while loop of get_complete_audit_log, the service
\* answering resp: the new accumulator, token and counter, and how the pass
\* ends (continue, break, or raise)
loop_body(a, log, tok, n, resp) ==
    LET r == get_audit_log_subset(resp)
    IN IF r.kind = "raise"
       THEN [log |-> log, tok |-> tok, n |-> n, ctl |-> "raise", exc |-> r.exc]
       ELSE IF r.kind = "none"
       THEN IF a.verbose
            THEN \* len(subset) in the progress message: len(None)
                 [log |-> log, tok |-> r.next_token, n |-> n, ctl |-> "raise", exc |-> "TypeError"]
            ELSE [log |-> log, tok |-> r.next_token, n |-> n, ctl |-> ErrorControl, exc |-> ""]
       ELSE IF LastPage(r.next_token)
       THEN [log |-> concat(log, r.df), tok |-> r.next_token, n |-> n, ctl |-> "break", exc |-> ""]
       ELSE [log |-> concat(log, r.df), tok |-> r.next_token, n |-> n + 1,
             ctl |-> IF CapReached(a, n + 1) THEN "break" ELSE "continue", exc |-> ""]

\* the rows reframe_audit_log makes of one entry: one per key of 'details'
ExplodeEntryReversed(e) ==
    [k \in 1..Len(e.details) |->
        [id |-> e.id, event |-> e.details[Len(e.details) + 1 - k][1],
         description |-> e.details[Len(e.details) + 1 - k][2]]]

ExplodeEntrySwapped(e) ==
    [k \in 1..Len(e.details) |->
        [id |-> e.id, event |-> e.details[k][2], description |-> e.details[k][1]]]

ExplodeEntry(e) ==
    [k \in 1..Len(e.details) |->
        [id |-> e.id, event |-> e.details[k][1], description |-> e.details[k][2]]]

RECURSIVE ExplodeAll(_)
ExplodeAll(df) ==
    IF df = <<>> THEN <<>> ELSE ExplodeEntry(Head(df)) \o ExplodeAll(Tail(df))

\* reframe_audit_log(audit_df): a frame without rows has no 'details' column
\* (KeyError); when no row holds a mapping, apply gives back a frame, which
\* has no tolist (AttributeError)
reframe_audit_log(audit_df) ==
    LET df == SelectSeq(audit_df, LAMBDA e : e.isdict)
    IN IF audit_df = <<>> THEN [raised |-> TRUE, exc |-> "KeyError", rows |-> <<>>]
       ELSE IF df = <<>> THEN [raised |-> TRUE, exc |-> "AttributeError", rows |-> <<>>]
       ELSE [raised |-> FALSE, exc |-> "", rows |-> ExplodeAll(df)]

\* the code of get_complete_audit_log after the loop
after_loop(a, log) ==
    IF a.reframe
    THEN LET x == reframe_audit_log(log)
         IN IF x.raised THEN [kind |-> "raise", value |-> <<>>, exc |-> x.exc]
            ELSE [kind |-> "return", value |-> x.rows, exc |-> ""]
    ELSE [kind |-> "return", value |-> log, exc |-> ""]

HierarchyIdle ==
    /\ f_meta = <<>>
    /\ folder_data = <<>>
    /\ hpc = "idle"
    /\ level_map = NoLevelMap
    /\ SelectIdle

BuildIdle == HierarchyIdle /\ ToolsIdle

\* the arguments of a call: max_iterations is None or a number
AuditArgs ==
    [none : {FALSE}, max_iterations : 0..MaxIter, reframe : BOOLEAN, verbose : BOOLEAN]
    \cup [none : {TRUE}, max_iterations : {0}, reframe : BOOLEAN, verbose : BOOLEAN]

\* get_complete_audit_log was called and stands before the first pass
InitAudit ==
    /\ args \in AuditArgs
    /\ complete_audit_log = <<>>
    /\ next_page_token = "None"
    /\ i = 0
    /\ fetched = <<>>
    /\ apc = "loop"
    /\ outcome = NoOutcome
    /\ source = <<>>
    /\ first_run = NoOutcome
    /\ BuildIdle

\* the entry the pass makes in the log of fetches
FetchRecord(tok, resp) ==
    [sent |-> SentToken(tok), status |-> resp.status, data |-> resp.data,
     nextPageToken |-> resp.nextPageToken, result |-> get_audit_log_subset(resp).kind]

\* a pass of the loop that goes round again
PassContinue ==
    /\ apc = "loop"
    /\ Len(fetched) < MaxFetches
    /\ \E resp \in Responses :
         LET b == loop_body(args, complete_audit_log, next_page_token, i, resp)
         IN /\ b.ctl = "continue"
            /\ fetched' = Append(fetched, FetchRecord(next_page_token, resp))
            /\ complete_audit_log' = b.log
            /\ next_page_token' = b.tok
            /\ i' = b.n
    /\ UNCHANGED <<args, apc, outcome, rvars, hvars>>

\* a pass of the loop that breaks: the code after the loop runs and
\* get_complete_audit_log returns, or raises out of reframe_audit_log
PassBreak ==
    /\ apc = "loop"
    /\ Len(fetched) < MaxFetches
    /\ \E resp \in Responses :
         LET b == loop_body(args, complete_audit_log, next_page_token, i, resp)
             o == after_loop(args, b.log)
         IN /\ b.ctl = "break"
            /\ fetched' = Append(fetched, FetchRecord(next_page_token, resp))
            /\ complete_audit_log' = b.log
            /\ next_page_token' = b.tok
            /\ i' = b.n
            /\ outcome' = o
            /\ apc' = IF o.kind = "raise" THEN "raised" ELSE "returned"
    /\ UNCHANGED <<args, rvars, hvars>>

\* a pass of the loop that raises: the exception leaves get_complete_audit_log
PassRaise ==
    /\ apc = "loop"
    /\ Len(fetched) < MaxFetches
    /\ \E resp \in Responses :
         LET b == loop_body(args, complete_audit_log, next_page_token, i, resp)
         IN /\ b.ctl = "raise"
            /\ fetched' = Append(fetched, FetchRecord(next_page_token, resp))
            /\ complete_audit_log' = b.log
            /\ next_page_token' = b.tok
            /\ i' = b.n
            /\ outcome' = [kind |-> "raise", value |-> <<>>, exc |-> b.exc]
            /\ apc' = "raised"
    /\ UNCHANGED <<args, rvars, hvars>>

NextAudit == PassContinue \/ PassBreak \/ PassRaise

SpecAudit == InitAudit /\ [][NextAudit]_vars

----------------------------------------------------------------------------
(* Two calls of get_complete_audit_log, one after the other, with the same
   arguments against a page source whose answer the request determines *)

\* the requests of a run differ in the token they carry alone
SentTokens == {"None", "t1", "t2"}

\* the pages of the source: no entry, or one entry
SourcePages == {<<>>} \cup {<<e>> : e \in Entries}

\* the answers of the source: a page with or without a token, or an error
SourceAnswers ==
    [status : {200}, data : SourcePages, nextPageToken : SentTokens]
    \cup [status : {204, 400}, data : {<<>>}, nextPageToken : {"None"}]

\* complete_audit_log = pd.DataFrame(): the accumulator a call starts from,
\* prev being what the call before left in its accumulator
KeptAccumulator(prev) == prev

NewAccumulator(prev) == <<>>

InitTwoRuns ==
    /\ source \in [SentTokens -> SourceAnswers]
    /\ first_run = NoOutcome
    /\ args \in AuditArgs
    /\ complete_audit_log = NewAccumulator(<<>>)
    /\ next_page_token = "None"
    /\ i = 0
    /\ fetched = <<>>
    /\ apc = "loop"
    /\ outcome = NoOutcome
    /\ BuildIdle

\* a pass of the loop, the source answering the request: the loop goes round
\* again, or the call returns or raises
SourcePass ==
    /\ apc = "loop"
    /\ Len(fetched) < MaxFetches
    /\ LET resp == source[SentToken(next_page_token)]
           b == loop_body(args, complete_audit_log, next_page_token, i, resp)
           o == IF b.ctl = "raise" THEN [kind |-> "raise", value |-> <<>>, exc |-> b.exc]
                ELSE after_loop(args, b.log)
       IN /\ fetched' = Append(fetched, FetchRecord(next_page_token, resp))
          /\ complete_audit_log' = b.log
          /\ next_page_token' = b.tok
          /\ i' = b.n
          /\ outcome' = IF b.ctl = "continue" THEN outcome ELSE o
          /\ apc' = IF b.ctl = "continue" THEN "loop"
                    ELSE IF o.kind = "raise" THEN "raised" ELSE "returned"
    /\ UNCHANGED <<args, rvars, hvars>>

\* the first call is over: the caller keeps its outcome and calls again with
\* the same arguments
SecondCall ==
    /\ apc \in {"returned", "raised"}
    /\ first_run = NoOutcome
    /\ first_run' = outcome
    /\ complete_audit_log' = NewAccumulator(complete_audit_log)
    /\ next_page_token' = "None"
    /\ i' = 0
    /\ fetched' = <<>>
    /\ apc' = "loop"
    /\ outcome' = NoOutcome
    /\ UNCHANGED <<args, source, hvars>>

NextTwoRuns == SourcePass \/ SecondCall

SpecTwoRuns == InitTwoRuns /\ [][NextTwoRuns]_vars

----------------------------------------------------------------------------
(* reframe_audit_log called on a frame of its own *)

\* further audit entries: 'details' a mapping of one key, and of no key
EntryWithOneDetail == [id |-> "e3", isdict |-> TRUE, details |-> <<<<"k3", "v3">>>>]
EntryWithEmptyDetails == [id |-> "e4", isdict |-> TRUE, details |-> <<>>]

FrameEntries == Entries \cup {EntryWithOneDetail, EntryWithEmptyDetails}

\* reframe_audit_log(audit_df) was called with the frame complete_audit_log
InitReframe ==
    /\ complete_audit_log \in SeqsUpTo(FrameEntries, MaxRows)
    /\ args = NoArgs
    /\ next_page_token = "None"
    /\ i = 0
    /\ fetched = <<>>
    /\ apc = "reframe_audit_log"
    /\ outcome = NoOutcome
    /\ source = <<>>
    /\ first_run = NoOutcome
    /\ BuildIdle

\* the call returns the exploded frame
ReframeReturn ==
    /\ apc = "reframe_audit_log"
    /\ ~reframe_audit_log(complete_audit_log).raised
    /\ outcome' = [kind |-> "return", value |-> reframe_audit_log(complete_audit_log).rows,
                   exc |-> ""]
    /\ apc' = "returned"
    /\ UNCHANGED <<args, complete_audit_log, next_page_token, i, fetched, rvars, hvars>>

\* the call raises
ReframeRaise ==
    /\ apc = "reframe_audit_log"
    /\ reframe_audit_log(complete_audit_log).raised
    /\ outcome' = [kind |-> "raise", value |-> <<>>,
                   exc |-> reframe_audit_log(complete_audit_log).exc]
    /\ apc' = "raised"
    /\ UNCHANGED <<args, complete_audit_log, next_page_token, i, fetched, rvars, hvars>>

NextReframe == ReframeReturn \/ ReframeRaise

SpecReframe == InitReframe /\ [][NextReframe]_vars

----------------------------------------------------------------------------
(* The query parameters of get_audit_log_subset: audit_log.py *)

\* json.dumps(event_date): the text of the JSON object, a str and no dict
json_dumps(obj) == [type |-> "str", json |-> obj]

\* Python truthiness of an argument: None, {} and [] are falsy
ArgTruthy(x) == ~x.none /\ x.value # <<>>

\* the else branch: the filters the caller gave
GivenFilters(req, p) ==
    LET q == IF ArgTruthy(req.event_date)
             THEN DictSet(p, "eventDate", json_dumps(req.event_date.value)) ELSE p
    IN  IF ArgTruthy(req.operations) THEN DictSet(q, "operations", req.operations.value) ELSE q

FiltersAlways(req, p) == GivenFilters(req, p)

Filters(req, p) ==
    IF TokenTruthy(req.next_page_token) THEN p ELSE GivenFilters(req, p)

\* params as wrike_get receives them
subset_params(req) ==
    LET p0 == <<<<"pageSize", req.page_size>>>>
        p1 == IF TokenTruthy(req.next_page_token)
              THEN DictSet(p0, "nextPageToken", req.next_page_token) ELSE p0
    IN  Filters(req, p1)

\* the arguments of a call: a date range is a dict with 'start' and 'end', or
\* with 'start' alone; operations is a list of operation names
EventDates ==
    {None, Given(<<>>), Given(<<<<"start", "d1">>>>),
     Given(<<<<"start", "d1">>, <<"end", "d2">>>>)}
Operations == {None, Given(<<>>), Given(<<"op1">>), Given(<<"op1", "op2">>)}
PageSizes == {1, 100, 1000}

Requests ==
    [next_page_token : Tokens, event_date : EventDates, operations : Operations,
     page_size : PageSizes]

CoresIdle == AuditLoopIdle /\ HierarchyIdle

\* get_audit_log_subset was called
InitParams ==
    /\ request \in Requests
    /\ params = <<>>
    /\ ppc = "get_audit_log_subset"
    /\ CoresIdle
    /\ JsonIdle
    /\ ExportIdle

\* the call reaches wrike_get(url, return_response=True, params=params)
SendParams ==
    /\ ppc = "get_audit_log_subset"
    /\ params' = subset_params(request)
    /\ ppc' = "wrike_get"
    /\ UNCHANGED <<request, lvars, bvars, jvars, evars>>

NextParams == SendParams

SpecParams == InitParams /\ [][NextParams]_vars

----------------------------------------------------------------------------
(* flatten_json, insert and unflatten_json: core/toolkit.py *)

sep == "_"
Digits == <<"0", "1", "2", "3", "4", "5", "6", "7", "8", "9">>

\* str(idx) of an index below ten
Str(idx) == <<Digits[idx + 1]>>

\* f'{parent_key}{sep}{key}' if parent_key else key
NewKey(parent_key, key) == IF parent_key # <<>> THEN parent_key \o <<sep>> \o key ELSE key

\* flattened.update(other)
RECURSIVE Update(_, _)
Update(d, other) ==
    IF other = <<>> THEN d
    ELSE Update(DictSet(d, other[1][1], other[1][2]), Tail(other))

\* all(isinstance(item, dict) for item in value): true of the empty list
AllDicts(value) == \A n \in 1..Len(value.items) : value.items[n].t = "dict"

IgnoreNone == {}

RECURSIVE flatten_json(_, _, _)
RECURSIVE FlattenItems(_, _, _, _, _)
RECURSIVE FlattenList(_, _, _, _, _)

\* for idx, item in enumerate(value): flattened.update(flatten_json(item, ...))
FlattenList(flattened, value, idx, new_key, ignore_keys) ==
    IF idx >= Len(value.items) THEN flattened
    ELSE FlattenList(Update(flattened,
                            flatten_json(value.items[idx + 1].items,
                                         new_key \o <<sep>> \o Str(idx), ignore_keys)),
                     value, idx + 1, new_key, ignore_keys)

\* the body of the loop over data.items(), from item n on
FlattenItems(flattened, data, n, parent_key, ignore_keys) ==
    IF n > Len(data) THEN flattened
    ELSE LET key == data[n][1]
             value == data[n][2]
             new_key == NewKey(parent_key, key)
             next == IF key \in ignore_keys THEN DictSet(flattened, new_key, value)
                     ELSE IF value.t = "dict"
                          THEN Update(flattened, flatten_json(value.items, new_key, ignore_keys))
                     ELSE IF value.t = "list" /\ AllDicts(value)
                          THEN FlattenList(flattened, value, 0, new_key, ignore_keys)
                     ELSE DictSet(flattened, new_key, value)
         IN  FlattenItems(next, data, n + 1, parent_key, ignore_keys)

flatten_json(data, parent_key, ignore_keys) ==
    FlattenItems(<<>>, data, 1, parent_key, ignore_keys)

\* k.split(sep), from the segment cur on
RECURSIVE SplitFrom(_, _, _)
SplitFrom(k, n, cur) ==
    IF n > Len(k) THEN <<cur>>
    ELSE IF k[n] = sep THEN <<cur>> \o SplitFrom(k, n + 1, <<>>)
    ELSE SplitFrom(k, n + 1, Append(cur, k[n]))

Split(k) == SplitFrom(k, 1, <<>>)

\* str.isdigit(): false of the empty string
isdigit(seg) == seg # <<>> /\ \A n \in 1..Len(seg) : \E m \in 1..Len(Digits) : seg[n] = Digits[m]

RECURSIVE int(_)
int(seg) ==
    IF seg = <<>> THEN 0
    ELSE 10 * int(SubSeq(seg, 1, Len(seg) - 1))
         + (CHOOSE m \in 1..Len(Digits) : seg[Len(seg)] = Digits[m]) - 1

\* an int used as a dict key is no str
IntKey(seg) == <<"int">> \o Str(int(seg) % 10)

JsonError(exc) == [t |-> "error", s |-> exc, items |-> <<>>]

\* while len(d) <= key: d.append(filler)
RECURSIVE Pad(_, _, _)
Pad(items, key, filler) == IF Len(items) <= key THEN Pad(Append(items, filler), key, filler) ELSE items

\* [] if next_key_is_digit else {}
FillerFor(keys) == IF isdigit(keys[2]) THEN JsonList(<<>>) ELSE JsonDict(<<>>)

\* insert(d, keys, value): d after the call, or the exception it raised
RECURSIVE insert(_, _, _)
insert(d, keys, value) ==
    LET isint == isdigit(keys[1])
        key == IF isint THEN int(keys[1]) ELSE 0
    IN  IF Len(keys) = 1
        THEN IF isint
             THEN IF d.t = "list"
                  THEN JsonList([Pad(d.items, key, JsonNone) EXCEPT ![key + 1] = value])
                  ELSE IF d.t = "dict"
                  THEN IF Len(d.items) <= key THEN JsonError("AttributeError")
                       ELSE JsonDict(DictSet(d.items, IntKey(keys[1]), value))
                  ELSE JsonError("TypeError")
             ELSE IF d.t = "dict" THEN JsonDict(DictSet(d.items, keys[1], value))
                  ELSE JsonError("TypeError")
        ELSE IF isint
             THEN IF d.t = "list"
                  THEN LET padded == Pad(d.items, key, FillerFor(keys))
                           sub == insert(padded[key + 1], Tail(keys), value)
                       IN  IF sub.t = "error" THEN sub
                           ELSE JsonList([padded EXCEPT ![key + 1] = sub])
                  ELSE IF d.t = "dict"
                  THEN IF Len(d.items) <= key THEN JsonError("AttributeError")
                       ELSE IF ~DictHas(d.items, IntKey(keys[1])) THEN JsonError("KeyError")
                       ELSE LET sub == insert(DictGet(d.items, IntKey(keys[1]), JsonNone),
                                               Tail(keys), value)
                            IN  IF sub.t = "error" THEN sub
                                ELSE JsonDict(DictSet(d.items, IntKey(keys[1]), sub))
                  ELSE JsonError("TypeError")
             ELSE IF d.t = "dict"
                  THEN LET sub == insert(DictGet(d.items, keys[1], FillerFor(keys)),
                                          Tail(keys), value)
                       IN  IF sub.t = "error" THEN sub
                           ELSE JsonDict(DictSet(d.items, keys[1], sub))
                  ELSE JsonError("AttributeError")

\* for k, v in flat_dict.items(): insert(unflattened, k.split(sep), v)
RECURSIVE UnflattenFrom(_, _, _)
UnflattenFrom(unflattened, flat_dict, n) ==
    IF n > Len(flat_dict) \/ unflattened.t = "error" THEN unflattened
    ELSE UnflattenFrom(insert(unflattened, Split(flat_dict[n][1]), flat_dict[n][2]),
                       flat_dict, n + 1)

unflatten_json(flat_dict) == UnflattenFrom(JsonDict(<<>>), flat_dict, 1)

\* Python's == on JSON values: dicts compare without regard to order
RECURSIVE JsonEq(_, _)
JsonEq(x, y) ==
    /\ x.t = y.t
    /\ x.s = y.s
    /\ Len(x.items) = Len(y.items)
    /\ IF x.t = "dict"
       THEN \A n \in 1..Len(x.items) :
              /\ DictHas(y.items, x.items[n][1])
              /\ JsonEq(x.items[n][2], DictGet(y.items, x.items[n][1], JsonNone))
       ELSE \A n \in 1..Len(x.items) : JsonEq(x.items[n], y.items[n])

\* the nested objects of the runs: keys without separator and no digit
\* strings, scalar and plain-list leaves, dicts and lists of dicts
MaxDepth == 2
MaxListLen == 2
MaxItemKeys == 1

KeyOrder == <<<<"a">>, <<"b">>>>
Leaves == {JsonScalar("s"), JsonList(<<JsonScalar("s")>>)}

\* dicts with keys KeyOrder[n], ... in this order and values from V
RECURSIVE DictsFrom(_, _)
DictsFrom(n, V) ==
    IF n > Len(KeyOrder) THEN {<<>>}
    ELSE DictsFrom(n + 1, V)
         \cup {<<<<KeyOrder[n], v>>>> \o d : v \in V, d \in DictsFrom(n + 1, V)}

RECURSIVE JsonDicts(_)
JsonDicts(depth) ==
    IF depth = 0 THEN {<<>>}
    ELSE LET below == JsonDicts(depth - 1)
             members == {JsonDict(d) : d \in {b \in below : Len(b) <= MaxItemKeys}}
             lists == {JsonList(l) : l \in SeqsUpTo(members, MaxListLen)}
         IN  DictsFrom(1, Leaves \cup {JsonDict(d) : d \in below} \cup lists)

\* unflatten_json(flatten_json(x)) was called
InitJson ==
    /\ json_in \in {JsonDict(d) : d \in JsonDicts(MaxDepth)}
    /\ flat = <<>>
    /\ json_out = JsonNone
    /\ jpc = "flatten_json"
    /\ CoresIdle
    /\ ParamsIdle
    /\ ExportIdle

FlattenJson ==
    /\ jpc = "flatten_json"
    /\ flat' = flatten_json(json_in.items, <<>>, IgnoreNone)
    /\ jpc' = "unflatten_json"
    /\ UNCHANGED <<json_in, json_out, lvars, bvars, pvars, evars>>

UnflattenJson ==
    /\ jpc = "unflatten_json"
    /\ json_out' = unflatten_json(flat)
    /\ jpc' = IF unflatten_json(flat).t = "error" THEN "raised" ELSE "returned"
    /\ UNCHANGED <<json_in, flat, lvars, bvars, pvars, evars>>

NextJson == FlattenJson \/ UnflattenJson

SpecJson == InitJson /\ [][NextJson]_vars

----------------------------------------------------------------------------
(* data_export_to_sql: wrike/data_export.py over core/api.py *)

\* what a GET of an export URL can be answered with: an HTTP error status,
\* a CSV body, or a JSON body (an object with or without 'data', or a list)
ExportAnswers == {"http_error", "csv", "json_data", "json_no_data", "json_list"}

\* wrike_get(url, return_response): the Response object only on request,
\* without it response.json().get('data'), and None on an HTTP error
wrike_get_url(ans, return_response) ==
    IF ans = "http_error" THEN [raised |-> FALSE, exc |-> "", type |-> "NoneType"]
    ELSE IF return_response THEN [raised |-> FALSE, exc |-> "", type |-> "Response"]
    ELSE IF ans = "csv" THEN [raised |-> TRUE, exc |-> "JSONDecodeError", type |-> ""]
    ELSE IF ans = "json_list" THEN [raised |-> TRUE, exc |-> "AttributeError", type |-> ""]
    ELSE IF ans = "json_data" THEN [raised |-> FALSE, exc |-> "", type |-> "list"]
    ELSE [raised |-> FALSE, exc |-> "", type |-> "NoneType"]

\* response = wrike_get(url=url, verbose=verbose); df = pd.read_csv(
\* io.BytesIO(response.content)): only a Response has .content
read_export(ans) ==
    LET response == wrike_get_url(ans, FALSE)
    IN  IF response.raised THEN response
        ELSE IF response.type # "Response"
        THEN [raised |-> TRUE, exc |-> "AttributeError", type |-> ""]
        ELSE [raised |-> FALSE, exc |-> "", type |-> "DataFrame"]

\* the dicts of the runs: up to MaxTables tables, no name twice
MaxTables == 3
TableNames == {"user", "work_item", "audit_log"}

RECURSIVE ExportDicts(_)
ExportDicts(n) ==
    IF n = 0 THEN {<<>>}
    ELSE LET shorter == ExportDicts(n - 1)
         IN  shorter \cup
             UNION {{Append(d, <<name, "url">>) :
                        name \in TableNames \ SeqToSet(DictKeys(d))} : d \in shorter}

RetryIdle ==
    /\ tbl_name = "None"
    /\ fail = FALSE
    /\ conn = "unbound"
    /\ leaked = 0
    /\ caught = "None"

\* data_export_to_sql(data_export_dict, engine, if_exists) was called
InitExport ==
    /\ data_export_dict \in ExportDicts(MaxTables)
    /\ answer \in ExportAnswers
    /\ pushed = <<>>
    /\ epc = "for"
    /\ export_exc = "None"
    /\ RetryIdle
    /\ CoresIdle
    /\ ParamsIdle
    /\ JsonIdle

\* the for loop finds no table (left): the call returns None
ExportReturn ==
    /\ epc = "for"
    /\ Len(pushed) = Len(data_export_dict)
    /\ epc' = "returned"
    /\ UNCHANGED <<data_export_dict, answer, tbl_name, fail, conn, leaked, caught, pushed,
                   export_exc>>
    /\ UNCHANGED <<lvars, bvars, pvars, jvars>>

\* the fetch of the next table's frame raises
ExportFetchRaise ==
    /\ epc = "for"
    /\ Len(pushed) < Len(data_export_dict)
    /\ read_export(answer).raised
    /\ export_exc' = read_export(answer).exc
    /\ epc' = "raised"
    /\ UNCHANGED <<data_export_dict, answer, tbl_name, fail, conn, leaked, caught, pushed>>
    /\ UNCHANGED <<lvars, bvars, pvars, jvars>>

NextExport == ExportReturn \/ ExportFetchRaise

SpecExport == InitExport /\ [][NextExport]_vars

----------------------------------------------------------------------------
(* The retry loop of data_export_to_sql, from its entry with a frame df *)

\* the exceptions of the except clause, and one it does not name
ConnectionErrors ==
    {"ConnectionAbortedError", "ConnectionError", "ConnectionRefusedError",
     "ConnectionResetError"}
OtherErrors == {"OperationalError"}

MaxLeaked == 2

\* conn = engine.connect() rebinds conn: a connection still open under that
\* name goes on open, without a name (counted up to MaxLeaked)
Rebound(c, n) == IF c = "open" /\ n < MaxLeaked THEN n + 1 ELSE n

\* line 96: fail = True, before the first pass of the while loop
InitRetry ==
    /\ tbl_name \in TableNames
    /\ data_export_dict = <<<<tbl_name, "url">>>>
    /\ answer = "None"
    /\ fail = TRUE
    /\ conn = "unbound"
    /\ leaked = 0
    /\ caught = "None"
    /\ pushed = <<>>
    /\ epc = "connect"
    /\ export_exc = "None"
    /\ CoresIdle
    /\ ParamsIdle
    /\ JsonIdle

\* conn = engine.connect() returns a connection
ConnectOk ==
    /\ epc = "connect"
    /\ conn' = "open"
    /\ leaked' = Rebound(conn, leaked)
    /\ epc' = "to_sql"
    /\ UNCHANGED <<data_export_dict, answer, tbl_name, fail, caught, pushed, export_exc>>
    /\ UNCHANGED <<lvars, bvars, pvars, jvars>>

\* engine.connect() raises what the except clause names: continue
ConnectFail ==
    /\ epc = "connect"
    /\ \E err \in ConnectionErrors : caught' = err
    /\ UNCHANGED <<data_export_dict, answer, tbl_name, fail, conn, leaked, pushed, epc,
                   export_exc>>
    /\ UNCHANGED <<lvars, bvars, pvars, jvars>>

\* df.to_sql(...) writes the table: fail = False
PushOk ==
    /\ epc = "to_sql"
    /\ pushed' = Append(pushed, tbl_name)
    /\ fail' = FALSE
    /\ epc' = "close"
    /\ UNCHANGED <<data_export_dict, answer, tbl_name, conn, leaked, caught, export_exc>>
    /\ UNCHANGED <<lvars, bvars, pvars, jvars>>

\* df.to_sql(...) raises what the except clause names: continue
PushFail ==
    /\ epc = "to_sql"
    /\ \E err \in ConnectionErrors : caught' = err
    /\ epc' = "connect"
    /\ UNCHANGED <<data_export_dict, answer, tbl_name, fail, conn, leaked, pushed,
                   export_exc>>
    /\ UNCHANGED <<lvars, bvars, pvars, jvars>>

\* engine.connect() or df.to_sql(...) raises anything else: the call raises
RetryRaise ==
    /\ epc \in {"connect", "to_sql"}
    /\ \E err \in OtherErrors : export_exc' = err
    /\ epc' = "raised"
    /\ UNCHANGED <<data_export_dict, answer, tbl_name, fail, conn, leaked, caught, pushed>>
    /\ UNCHANGED <<lvars, bvars, pvars, jvars>>

\* conn.close(), and the while loop ends on fail = False
CloseConn ==
    /\ epc = "close"
    /\ conn' = "closed"
    /\ epc' = IF fail THEN "connect" ELSE "done"
    /\ UNCHANGED <<data_export_dict, answer, tbl_name, fail, leaked, caught, pushed,
                   export_exc>>
    /\ UNCHANGED <<lvars, bvars, pvars, jvars>>

NextRetry == ConnectOk \/ ConnectFail \/ PushOk \/ PushFail \/ RetryRaise \/ CloseConn

SpecRetry == InitRetry /\ [][NextRetry]_vars

----------------------------------------------------------------------------
(* Vocabulary of the hierarchy claims, read off the input f_meta *)

Records == 1..Len(f_meta)

\* record p lists the id of record c in its child ids
Edge(p, c) == f_meta[c].id \in SeqToSet(f_meta[p].childIds)

Listers(c) == {p \in Records : Edge(p, c)}

\* a path of at most k child references leads from p to c
RECURSIVE ReachIn(_, _, _)
ReachIn(p, c, k) ==
    \/ Edge(p, c)
    \/ k > 1 /\ \E m \in Records : Edge(p, m) /\ ReachIn(m, c, k - 1)

Reach(p, c) == ReachIn(p, c, Len(f_meta))

Acyclic == \A n \in Records : ~Reach(n, n)

NonEmptyIds == \A n \in Records : f_meta[n].id # ""

\* p is a root (a record whose 'parent' is empty or missing) or below one
FromRoot(p) ==
    \E r \in Records : ParentOf(folder_data[r]) = <<>> /\ (r = p \/ Reach(r, p))

HasLevel(n) == "level" \in folder_data[n].keys

OneLevelApart(p, c) ==
    /\ HasLevel(p)
    /\ HasLevel(c)
    /\ folder_data[c].level = folder_data[p].level + 1

\* the record the 'parent' mapping of record n names, 0 when there is none
NamedParent(n) == id_to_folder(folder_data, ParentOf(folder_data[n])[1][1])

BuildDone == hpc = "done"
AfterAddParentKv == hpc = "add_child_kv"
AfterAddChildKv == hpc = "add_level"

RecordIds == {f_meta[n].id : n \in Records}

\* some child list names an id that is the id of no record
HasMiss ==
    \E n \in Records : \E k \in 1..Len(f_meta[n].childIds) :
        f_meta[n].childIds[k] \notin RecordIds

\* a cycle of child references lies on or below a root
CycleBelowRoot == \E m \in Records : FromRoot(m) /\ Reach(m, m)

\* the title a direct lookup of id x in the input records gives, '' for none
TitleOf(x) ==
    IF x \in RecordIds THEN f_meta[CHOOSE m \in Records : f_meta[m].id = x].title
    ELSE ""

\* the position at which id x first stands in the sequence ids
FirstAt(ids, x) == CHOOSE k \in 1..Len(ids) : ids[k] = x /\ \A j \in 1..(k - 1) : ids[j] # x

----------------------------------------------------------------------------
(* Claims on the hierarchy build *)

\* C1 as stated, on record sets whose ids are all non-empty: after the full
\* build of an acyclic record set, every child reference P -> C between
\* records, with P a root or below one, has level(C) = level(P) + 1, also when
\* several records list C. Refuted by a record listed at two depths.
C1_EveryEdgeOneLevelApart ==
    (BuildDone /\ Acyclic /\ NonEmptyIds) =>
        \A p \in Records, c \in Records :
            (Edge(p, c) /\ FromRoot(p)) => OneLevelApart(p, c)

\* C1 (amended): after the full build of an acyclic record set, every child
\* reference P -> C between records, with P a root or below one, where P is
\* the only record listing C and C's 'parent' mapping is non-empty, has
\* level(C) = level(P) + 1.
C1_SoleListerEdgeOneLevelApart ==
    (BuildDone /\ Acyclic) =>
        \A p \in Records, c \in Records :
            (/\ Edge(p, c)
             /\ FromRoot(p)
             /\ Listers(c) = {p}
             /\ ParentOf(folder_data[c]) # <<>>) => OneLevelApart(p, c)

\* C1 witness: a finished build of an acyclic record set with a reference
\* P -> C two levels down, P the only lister of C.
C1_Witness ==
    /\ BuildDone
    /\ Acyclic
    /\ \E p \in Records, c \in Records :
          /\ Edge(p, c)
          /\ FromRoot(p)
          /\ Listers(c) = {p}
          /\ ParentOf(folder_data[c]) # <<>>
          /\ HasLevel(p)
          /\ folder_data[p].level = 1
          /\ folder_data[c].level = 2

\* C2 as stated, on record sets whose ids are all non-empty: after the full
\* build of an acyclic record set, every record with a non-empty 'parent'
\* mapping has the level of the record named there plus 1, and every record
\* without a parent has level 0. Refuted by a record listed at two depths.
C2_LevelIsRecordedParentPlusOne ==
    (BuildDone /\ Acyclic /\ NonEmptyIds) =>
        \A n \in Records :
            IF ParentOf(folder_data[n]) # <<>>
            THEN NamedParent(n) # 0 /\ OneLevelApart(NamedParent(n), n)
            ELSE HasLevel(n) /\ folder_data[n].level = 0

\* C2 (amended): after the full build of an acyclic record set, every record
\* that exactly one record lists and whose 'parent' mapping is non-empty has
\* the level of the record named there plus 1, and every record that no
\* record lists has level 0.
C2_SoleListerLevelIsParentPlusOne ==
    (BuildDone /\ Acyclic) =>
        \A n \in Records :
            /\ (Cardinality(Listers(n)) = 1 /\ ParentOf(folder_data[n]) # <<>>) =>
                    (NamedParent(n) # 0 /\ OneLevelApart(NamedParent(n), n))
            /\ Listers(n) = {} => (HasLevel(n) /\ folder_data[n].level = 0)

\* C2 witness: a finished build of an acyclic record set holding a record no
\* record lists and a record that comes after its only lister in the list
\* and sits one level below it.
C2_Witness ==
    /\ BuildDone
    /\ Acyclic
    /\ \E r \in Records : Listers(r) = {}
    /\ \E n \in Records :
          /\ Cardinality(Listers(n)) = 1
          /\ ParentOf(folder_data[n]) # <<>>
          /\ NamedParent(n) < n
          /\ OneLevelApart(NamedParent(n), n)

\* C8, on acyclic record sets: after add_parent_kv, every record that some
\* record lists as a child has a non-empty 'parent' mapping.
C8_ListedRecordHasParent ==
    (AfterAddParentKv /\ Acyclic) =>
        \A c \in Records :
            Listers(c) # {} =>
                ("parent" \in folder_data[c].keys /\ folder_data[c].parent # <<>>)

\* the last record, in record order, that lists record c
LastLister(c) == CHOOSE p \in Listers(c) : \A q \in Listers(c) : q <= p

\* C9, on acyclic record sets: after add_parent_kv, a record listed by
\* several records has a 'parent' mapping of exactly one entry: the id and
\* title of the last record, in record order, that lists it.
C9_LastListerWins ==
    (AfterAddParentKv /\ Acyclic) =>
        \A c \in Records :
            Cardinality(Listers(c)) >= 2 =>
                /\ "parent" \in folder_data[c].keys
                /\ folder_data[c].parent =
                       <<<<f_meta[LastLister(c)].id, f_meta[LastLister(c)].title>>>>

\* C10: after add_parent_kv, every record that no other record lists as a
\* child holds a 'parent' key whose value is the empty mapping.
C10_UnlistedRecordHasEmptyParent ==
    AfterAddParentKv =>
        \A n \in Records :
            (Listers(n) \ {n}) = {} =>
                ("parent" \in folder_data[n].keys /\ folder_data[n].parent = <<>>)

\* C11: after add_child_kv every record holds a 'child' mapping and no
\* 'childIds' key; the keys of the mapping are the ids of the record's former
\* child list in the list's order (an id listed twice is one key, where it
\* first stood), each mapped to the title a direct lookup in the input
\* records gives, '' for an id of no record; a record that had no child list
\* holds the empty mapping.
C11_ChildMappingMirrorsChildIds ==
    AfterAddChildKv =>
        \A n \in Records :
            LET ids == f_meta[n].childIds
                child == folder_data[n].child
            IN /\ "child" \in folder_data[n].keys
               /\ "childIds" \notin folder_data[n].keys
               /\ SeqToSet(DictKeys(child)) = SeqToSet(ids)
               /\ \A a \in 1..Len(child), b \in 1..Len(child) :
                     a < b => FirstAt(ids, child[a][1]) < FirstAt(ids, child[b][1])
               /\ \A a \in 1..Len(child) : child[a][2] = TitleOf(child[a][1])
               /\ "childIds" \notin f_meta[n].keys => child = <<>>

\* C11 witness: add_child_kv has run on titled records of which one had no
\* 'childIds' key and one listed two ids, the first of no record, the second
\* of a record.
C11_Witness ==
    /\ AfterAddChildKv
    /\ \E n \in Records : "childIds" \notin f_meta[n].keys
    /\ \E n \in Records :
          /\ Len(f_meta[n].childIds) = 2
          /\ f_meta[n].childIds[1] \notin RecordIds
          /\ f_meta[n].childIds[2] \in RecordIds
          /\ TitleOf(f_meta[n].childIds[2]) # ""
          /\ Len(folder_data[n].child) = 2

\* the two records of the scenario of C12: A lists B, B holds no child list
TwoRecordScenario == OmitChildIds(MakeRecords(<<<<"B">>, <<>>>>, 0, FALSE))

\* C12: the full build of A (childIds [B]) and B (no child list), both with
\* empty titles, leaves A at level 0 with children {B: ''} and B at level 1
\* with parent {A: ''}.
C12_TwoRecordBuild ==
    (BuildDone /\ f_meta = TwoRecordScenario) =>
        /\ HasLevel(1) /\ folder_data[1].level = 0
        /\ ChildOf(folder_data[1]) = <<<<"B", "">>>>
        /\ "child" \in folder_data[1].keys
        /\ HasLevel(2) /\ folder_data[2].level = 1
        /\ "parent" \in folder_data[2].keys
        /\ folder_data[2].parent = <<<<"A", "">>>>

\* C12 witness: the build of the scenario, B without a 'childIds' key, is done.
C12_Witness ==
    /\ BuildDone
    /\ f_meta = TwoRecordScenario
    /\ "childIds" \notin f_meta[2].keys

\* C13: folder_level_map succeeds on every built record set, and its map
\* holds an entry for exactly the records that received a level: a record
\* without a level is absent from it.
C13_UnleveledRecordsAbsentFromMap ==
    hpc \in {"mapped", "KeyError"} =>
        /\ level_map.kind = "return"
        /\ \A n \in Records :
              IF HasLevel(n)
              THEN DictGet(level_map.map, folder_data[n].id, -1) = folder_data[n].level
              ELSE ~DictHas(level_map.map, folder_data[n].id)

\* what C14 says a missing id contributes: no parent link after
\* add_parent_kv (the records that hold 'parent' are the listed ones, each
\* naming a record that lists it), an empty title after add_child_kv, and
\* no record more or fewer at any time
MissesContributeNothing ==
    /\ Len(folder_data) = Len(f_meta)
    /\ hpc # "add_parent_kv" =>
          \A c \in Records :
              /\ "parent" \in folder_data[c].keys <=> Listers(c) # {}
              /\ \A k \in 1..Len(ParentOf(folder_data[c])) :
                    \E p \in Listers(c) : f_meta[p].id = folder_data[c].parent[k][1]
    /\ hpc \notin {"add_parent_kv", "add_child_kv"} =>
          \A n \in Records : \A a \in 1..Len(folder_data[n].child) :
              folder_data[n].child[a][1] \notin RecordIds => folder_data[n].child[a][2] = ""

\* C14 as stated, on record sets whose ids are all non-empty: on every
\* record set whose child lists name an id of no record, add_parent_kv,
\* add_child_kv and add_level complete without raising, the missing id
\* contributing nothing. Refuted by a record set that also holds a cycle below
\* a root: add_level raises RecursionError.
C14_MissesNeverRaise ==
    (HasMiss /\ NonEmptyIds) => (hpc # "RecursionError" /\ MissesContributeNothing)

\* C14 (amended): on every record set whose child lists name an id of no
\* record and that holds no cycle of child references on or below a root,
\* add_parent_kv, add_child_kv and add_level complete without raising; the
\* missing id contributes no parent link, an empty child title and no level.
C14_MissesNeverRaiseWithoutRootCycle ==
    HasMiss =>
        /\ MissesContributeNothing
        /\ (hpc # "add_parent_kv" /\ ~CycleBelowRoot) => hpc # "RecursionError"

\* C14 witness: the build is done on a record set in which a record lists
\* the id of no record next to the id of a record, which got its parent link
\* and its level.
C14_Witness ==
    /\ BuildDone
    /\ HasMiss
    /\ \E n \in Records, c \in Records :
          /\ Len(f_meta[n].childIds) = 2
          /\ f_meta[n].childIds[1] \notin RecordIds
          /\ f_meta[n].childIds[2] = f_meta[c].id
          /\ n # c
          /\ ParentOf(folder_data[c]) # <<>>
          /\ HasLevel(c)
          /\ folder_data[c].level = 1

\* add_level is over: it returned or raised
AddLevelOver == hpc \in {"done", "mapped", "KeyError", "RecursionError"}

\* C23: when a cycle of child references lies on or below a root, add_level
\* does not return: the nesting of assign_level and the level it assigns grow
\* up to the recursion limit, where RecursionError ends it; otherwise
\* add_level returns, and a record of a cycle that lies below no root was
\* never entered (it holds no level).
C23_NoCycleGuard ==
    AddLevelOver =>
        /\ CycleBelowRoot <=> hpc = "RecursionError"
        /\ hpc = "RecursionError" =>
              \E n \in Records : HasLevel(n) /\ folder_data[n].level = RecursionLimit - 1
        /\ \A m \in Records : (Reach(m, m) /\ ~FromRoot(m)) => ~HasLevel(m)

\* C23 witness: add_level raised on a record set with a root that lists a
\* record listing itself.
C23_Witness ==
    /\ hpc = "RecursionError"
    /\ NonEmptyIds
    /\ \E r \in Records, m \in Records :
          r # m /\ Listers(r) = {} /\ Edge(r, m) /\ Edge(m, m)

\* C24: on a record set with non-empty ids and no cycle of child references
\* the build ends without raising, every record ends with a level, and
\* folder_level_map returns a map with an entry for every record id.
C24_LevelTotalityOnAcyclicInput ==
    (Acyclic /\ NonEmptyIds) =>
        /\ hpc \notin {"RecursionError", "KeyError"}
        /\ hpc \in {"done", "mapped"} => \A n \in Records : HasLevel(n)
        /\ hpc = "mapped" =>
              /\ level_map.kind = "return"
              /\ \A n \in Records :
                    DictGet(level_map.map, f_meta[n].id, -1) = folder_data[n].level

\* C24 witness: folder_level_map returned the map of an acyclic record set
\* with a record at level 1.
C24_Witness ==
    /\ hpc = "mapped"
    /\ Acyclic
    /\ NonEmptyIds
    /\ Len(level_map.map) = Len(f_meta)
    /\ \E n \in Records : DictGet(level_map.map, f_meta[n].id, -1) = 1

\* C19: get_folder_or_project_id called with neither folder_title nor
\* project_title, and get_folder_or_project_name called with neither folder_id
\* nor project_id, raise ValueError at once: no fetch is issued before the
\* call ends, and the call does nothing after raising.
C19_MissingSelectorRaisesBeforeFetch ==
    (selectors.fn \in SelectFunctions
     /\ selectors.folder = "None" /\ selectors.project = "None") =>
        /\ remote_fetches = 0
        /\ folder_data = <<>>
        /\ hpc \in {"select", "ValueError"}
        /\ hpc = "ValueError" => found = [kind |-> "raise", value |-> "None", exc |-> "ValueError"]
        /\ hpc = "select" => ENABLED SelectRaise

\* C19 witness: get_folder_or_project_name, called with neither id while the
\* service holds records, has raised ValueError.
C19_Witness ==
    /\ selectors = [fn |-> "get_folder_or_project_name", folder |-> "None", project |-> "None"]
    /\ f_meta # <<>>
    /\ hpc = "ValueError"
    /\ found.exc = "ValueError"

----------------------------------------------------------------------------
(* Vocabulary of the audit-log claims, read off the log of fetches *)

Returned == apc = "returned"

\* every fetch so far was answered with status 200
AllOk == \A j \in 1..Len(fetched) : fetched[j].status = 200

\* some fetch so far was answered with an error
Errored == \E j \in 1..Len(fetched) : fetched[j].status # 200

\* the entries of the first k fetched pages that were answered with 200
RECURSIVE PagesConcat(_)
PagesConcat(k) ==
    IF k = 0 THEN <<>>
    ELSE PagesConcat(k - 1) \o (IF fetched[k].status = 200 THEN fetched[k].data ELSE <<>>)

----------------------------------------------------------------------------
(* Claims on the audit-log aggregation *)

\* C3: with max_iterations=None (and reframe off), a run over N >= 1 pages
\* answered with 200, of which only the N-th has no token, issues N fetches
\* (it ends at the first page without a token, not before) and returns the
\* concatenation of the N pages' entries in fetch order.
C3_DrainsToExhaustion ==
    (Returned /\ args.none /\ ~args.reframe /\ AllOk) =>
        /\ Len(fetched) >= 1
        /\ \A j \in 1..(Len(fetched) - 1) : TokenTruthy(fetched[j].nextPageToken)
        /\ ~TokenTruthy(fetched[Len(fetched)].nextPageToken)
        /\ outcome = [kind |-> "return", value |-> PagesConcat(Len(fetched)), exc |-> ""]

\* C3 witness: such a run over three pages, returning entries of two kinds.
C3_Witness ==
    /\ Returned /\ args.none /\ ~args.reframe /\ AllOk
    /\ Len(fetched) = 3
    /\ fetched[1].data # <<>>
    /\ fetched[3].data # <<>>
    /\ fetched[1].data # fetched[3].data

\* C4: with max_iterations = k (k = 0 included, reframe off), a run over
\* pages that all carry a token returns the concatenation of the first k
\* pages' entries.
C4_EarlyStopReturnsFirstK ==
    (/\ Returned /\ ~args.none /\ ~args.reframe /\ AllOk
     /\ \A j \in 1..Len(fetched) : TokenTruthy(fetched[j].nextPageToken)) =>
        /\ Len(fetched) >= args.max_iterations
        /\ outcome = [kind |-> "return", value |-> PagesConcat(args.max_iterations), exc |-> ""]

\* C5: a fetch error is terminal: only the last fetch of a run can be one
\* answered with an error, the run is over once it happened, and when the run
\* returns after it, the accumulated entries (the returned entries, with
\* reframe off) are the concatenation of the pages fetched before it.
C5_FetchErrorIsTerminal ==
    /\ \A j \in 1..(Len(fetched) - 1) : fetched[j].status = 200
    /\ Errored => apc \in {"returned", "raised"}
    /\ (Returned /\ Errored) =>
          /\ complete_audit_log = PagesConcat(Len(fetched) - 1)
          /\ ~args.reframe =>
                outcome = [kind |-> "return", value |-> PagesConcat(Len(fetched) - 1), exc |-> ""]

\* C5 witness: a run that returned after its third fetch reported an error,
\* with entries accumulated from the two pages before.
C5_Witness ==
    /\ Returned
    /\ Len(fetched) = 3
    /\ fetched[3].result = "none"
    /\ fetched[1].data # <<>>
    /\ fetched[2].data # <<>>
    /\ outcome.value = fetched[1].data \o fetched[2].data

\* C6: a run with default arguments whose first fetch failed never ends the
\* way a run over an empty feed ends (by returning no entries and nothing
\* else).
C6_FailureIsSignalled ==
    (/\ apc \in {"returned", "raised"}
     /\ args.none
     /\ ~args.reframe
     /\ Len(fetched) = 1
     /\ fetched[1].status # 200) =>
        outcome # [kind |-> "return", value |-> <<>>, exc |-> ""]

\* C7: get_audit_log_subset returns (None, None), without raising, for every
\* fetch answered with a status other than 200.
C7_SubsetReturnsNonePair ==
    \A j \in 1..Len(fetched) :
        fetched[j].status # 200 => fetched[j].result = "none"

\* C18: of two runs with the same arguments against a source whose answers
\* the request determines, the second ends as the first did: it returns the
\* same entries (or raises the same exception); nothing the first run left
\* behind shows in the second.
C18_SecondRunEndsAsFirst ==
    (apc \in {"returned", "raised"} /\ first_run # NoOutcome) => outcome = first_run

\* C18 witness: the second of two runs returned entries of two kinds that
\* it got from two pages.
C18_Witness ==
    /\ Returned
    /\ first_run.kind = "return"
    /\ Len(fetched) >= 2
    /\ ~args.reframe
    /\ Len(outcome.value) = 2
    /\ outcome.value[1] # outcome.value[2]

\* C20: the first fetch of a run carries no token, and every later fetch
\* carries the token the fetch before it was answered with.
C20_TokenChaining ==
    /\ Len(fetched) >= 1 => fetched[1].sent = "None"
    /\ \A j \in 2..Len(fetched) : fetched[j].sent = fetched[j - 1].nextPageToken

\* C20 witness: a run issued three fetches, the second and third with
\* different tokens.
C20_Witness ==
    /\ Len(fetched) = 3
    /\ fetched[2].sent = "t2"
    /\ fetched[3].sent = "t1"

\* C21: at every boundary of a loop pass the accumulator is the
\* concatenation, in fetch order, of the entries of the pages fetched with
\* success so far: entries that pages repeat are all kept, none is dropped
\* or moved.
C21_AccumulatorIsPagesInFetchOrder ==
    complete_audit_log = PagesConcat(Len(fetched))

\* C21 witness: the loop stands between passes after two pages that hold
\* the same entry, which the accumulator holds twice.
C21_Witness ==
    /\ apc = "loop"
    /\ Len(fetched) = 2
    /\ fetched[1].data # <<>>
    /\ fetched[1].data = fetched[2].data
    /\ complete_audit_log = fetched[1].data \o fetched[2].data

\* every fetch so far was answered with a page that carries a token
EndlessSoFar ==
    \A j \in 1..Len(fetched) :
        fetched[j].status = 200 /\ TokenTruthy(fetched[j].nextPageToken)

Capped == ~args.none /\ args.max_iterations >= 1

\* C22: with max_iterations = k >= 1 a run issues at most k fetches against
\* every source, and is over once it issued the k-th; with
\* max_iterations=None a run against a source that hands out a token with
\* every page is still in the loop after every fetch.
C22_BoundedFetching ==
    /\ Capped => Len(fetched) <= args.max_iterations
    /\ (Capped /\ Len(fetched) = args.max_iterations) => apc \in {"returned", "raised"}
    /\ (args.none /\ EndlessSoFar) => apc = "loop"

\* C22 witness: a run with max_iterations=2 has ended by the cap after two
\* fetches, each answered with a page and a token.
C22_Witness ==
    /\ Returned
    /\ ~args.none
    /\ args.max_iterations = 2
    /\ Len(fetched) = 2
    /\ EndlessSoFar

\* the answer of the service to fetch j
AnswerOf(j) ==
    [status |-> fetched[j].status, data |-> fetched[j].data,
     nextPageToken |-> fetched[j].nextPageToken]

\* how a call with the arguments a ends that gets, from pass j on, the
\* answers the fetches of this run got ("none": it is not over with them)
RECURSIVE ReplayFrom(_, _, _, _, _)
ReplayFrom(a, log, tok, n, j) ==
    IF j > Len(fetched) THEN NoOutcome
    ELSE LET b == loop_body(a, log, tok, n, AnswerOf(j))
         IN IF b.ctl = "continue" THEN ReplayFrom(a, b.log, b.tok, b.n, j + 1)
            ELSE IF b.ctl = "raise" THEN [kind |-> "raise", value |-> <<>>, exc |-> b.exc]
            ELSE after_loop(a, b.log)

\* how the call ends with verbose=False, all else the same
QuietOutcome == ReplayFrom([args EXCEPT !.verbose = FALSE], <<>>, "None", 0, 1)

\* C26: a run with verbose=True ends as the run with verbose=False and
\* otherwise the same arguments ends against the same answers: the same
\* entries returned, or a raise in both.
C26_VerboseEndsAsQuiet ==
    (apc \in {"returned", "raised"} /\ args.verbose) =>
        /\ outcome.kind = QuietOutcome.kind
        /\ outcome.value = QuietOutcome.value

----------------------------------------------------------------------------
(* Claims on reframe_audit_log, the input frame being complete_audit_log *)

\* the number of rows the entries before entry n are to give: the sum of the
\* key counts of those among them whose 'details' is a mapping
RECURSIVE RowsBefore(_)
RowsBefore(n) ==
    IF n = 1 THEN 0
    ELSE RowsBefore(n - 1)
         + (IF complete_audit_log[n - 1].isdict THEN Len(complete_audit_log[n - 1].details)
            ELSE 0)

ReframeOver == apc \in {"returned", "raised"}

\* C15: for every input sequence of entries reframe_audit_log gives an output
\* whose length is the sum of the key counts of the entries whose 'details'
\* is a mapping: m rows for a mapping of m keys, none for anything else.
C15_ExplodeRowCount ==
    ReframeOver =>
        /\ outcome.kind = "return"
        /\ Len(outcome.value) = RowsBefore(Len(complete_audit_log) + 1)

\* C16: in the output of reframe_audit_log the rows of an earlier entry come
\* before the rows of a later one, and the rows of one entry stand in the
\* insertion order of the keys of its 'details': the row of key k of entry n
\* stands k places after the rows of the entries before n.
C16_ExplodeOrdering ==
    Returned =>
        \A n \in 1..Len(complete_audit_log) :
            complete_audit_log[n].isdict =>
                \A k \in 1..Len(complete_audit_log[n].details) :
                    /\ RowsBefore(n) + k <= Len(outcome.value)
                    /\ outcome.value[RowsBefore(n) + k].id = complete_audit_log[n].id
                    /\ outcome.value[RowsBefore(n) + k].event =
                           complete_audit_log[n].details[k][1]

\* C16 witness: the call returned the rows of a frame in which an entry of
\* two keys stands between an entry of one key and an entry without a
\* mapping.
C16_Witness ==
    /\ Returned
    /\ complete_audit_log = <<EntryWithOneDetail, EntryWithDetails, EntryWithoutDetails>>
    /\ Len(outcome.value) = 3

\* C17: every row reframe_audit_log emits is the row of one key of one
\* entry: it holds the entry's other columns unchanged, the key in 'event',
\* the key's value in 'description', and no 'details' column.
C17_ExplodeFrame ==
    Returned =>
        \A r \in 1..Len(outcome.value) :
            \E n \in 1..Len(complete_audit_log) :
                /\ complete_audit_log[n].isdict
                /\ \E k \in 1..Len(complete_audit_log[n].details) :
                      outcome.value[r] =
                          [id |-> complete_audit_log[n].id,
                           event |-> complete_audit_log[n].details[k][1],
                           description |-> complete_audit_log[n].details[k][2]]

\* C17 witness: the call returned rows made of two entries with mappings.
C17_Witness ==
    /\ Returned
    /\ \E a \in 1..Len(outcome.value), b \in 1..Len(outcome.value) :
          outcome.value[a].id = "e1" /\ outcome.value[b].id = "e3"

\* C27: on a frame in which no entry can be exploded (no entry at all, or
\* no entry whose 'details' is a mapping) reframe_audit_log returns the empty
\* result and does not raise.
C27_ReframeAbsorbsDegenerate ==
    (/\ ReframeOver
     /\ \A n \in 1..Len(complete_audit_log) : ~complete_audit_log[n].isdict) =>
        outcome = [kind |-> "return", value |-> <<>>, exc |-> ""]

----------------------------------------------------------------------------
(* Claims on the query parameters of get_audit_log_subset *)

ParamsSent == ppc = "wrike_get"
TokenGiven == TokenTruthy(request.next_page_token)
ParamKeys == SeqToSet(DictKeys(params))

\* C25: the page size is sent on every request; with a continuation token
\* the request carries the page size and the token and nothing else; without
\* one it carries no token, and the date range (as JSON text) and the
\* operations filter exactly when the caller gave them.
C25_FiltersOnlyWithoutToken ==
    ParamsSent =>
        /\ DictGet(params, "pageSize", "None") = request.page_size
        /\ TokenGiven =>
              /\ ParamKeys = {"pageSize", "nextPageToken"}
              /\ DictGet(params, "nextPageToken", "None") = request.next_page_token
        /\ ~TokenGiven =>
              /\ ~DictHas(params, "nextPageToken")
              /\ DictHas(params, "eventDate") <=> ArgTruthy(request.event_date)
              /\ DictHas(params, "operations") <=> ArgTruthy(request.operations)
              /\ ArgTruthy(request.event_date) =>
                    DictGet(params, "eventDate", "None") = json_dumps(request.event_date.value)
              /\ ArgTruthy(request.operations) =>
                    DictGet(params, "operations", "None") = request.operations.value

\* a follow-up request whose caller repeated both filters
C25_Witness ==
    /\ ParamsSent
    /\ request.next_page_token = "t1"
    /\ ArgTruthy(request.event_date)
    /\ ArgTruthy(request.operations)
    /\ DictKeys(params) = <<"pageSize", "nextPageToken">>

----------------------------------------------------------------------------
(* Claims on flatten_json and unflatten_json *)

RoundTripOver == jpc \in {"returned", "raised"}

\* C30: unflatten_json(flatten_json(x)) returns x, for every nested object
\* of dicts, lists of dicts and scalar or plain-list leaves whose keys hold
\* no separator and are no digit strings, empty dicts and lists included.
C30_RoundTrip ==
    RoundTripOver => (jpc = "returned" /\ JsonEq(json_out, json_in))

----------------------------------------------------------------------------
(* Claims on data_export_to_sql *)

ExportOver == epc \in {"returned", "raised"}
ExportedTables == DictKeys(data_export_dict)

\* C28: a call of data_export_to_sql that is over (it is not retrying a
\* push for ever) has returned, with every table of data_export_dict pushed
\* successfully exactly once, in dictionary order.
C28_EveryTablePushedOnce ==
    ExportOver => (epc = "returned" /\ pushed = ExportedTables)

OpenConnections == leaked + (IF conn = "open" THEN 1 ELSE 0)

====
